---- MODULE Spec2Model ----
(***************************************************************************)
(* Model of beauty_contest_app.py: the Streamlit front end of the          *)
(* commit-reveal Beauty Contest game.  Every user interaction reruns       *)
(* main(), which renders the page selected in the sidebar; a form          *)
(* submission is one such rerun with the form's "submitted" flag set.      *)
(* What the user types is a sequence of characters; str values are        *)
(* strings.                                                                *)
(***************************************************************************)
EXTENDS Integers, Sequences, FiniteSets, TLC

VARIABLES
    now,      \* the UTC clock read by now_utc(), in seconds since the epoch
    page,     \* the sidebar radio selection
    screen,   \* what the last run of main() rendered, in order
    last,     \* the last run of main(): operation, inputs, request count, response
    calls,    \* the send_commit / send_reveal calls so far: the arguments
              \* and the JSON payload handed to requests.post
    commits,  \* backend ledger: accepted CommitRecords, insertion order
    reveals   \* backend ledger: the RevealRecords stored, order left out

vars == <<now, page, screen, last, calls, commits, reveals>>

\* the payloads posted to the backend so far
sent == { c.payload : c \in calls }

---------------------------------------------------------------------------
(* Bounds of the model *)

MaxSent == 2    \* at most this many distinct send_commit / send_reveal calls

---------------------------------------------------------------------------
(* Configuration, lines 22-23, as seconds since the epoch *)

COMMIT_DEADLINE_UTC == 1893542399    \* datetime(2030, 1, 1, 23, 59, 59, UTC)
REVEAL_OPEN_UTC == 1761084000        \* datetime(2025, 10, 21, 22, 0, 0, UTC)

min_value == 0
max_value == 100
value == 50

\* The instants the clock is sampled at: around both deadlines.
Times ==
    { REVEAL_OPEN_UTC - 1, REVEAL_OPEN_UTC,
      COMMIT_DEADLINE_UTC, COMMIT_DEADLINE_UTC + 1 }

---------------------------------------------------------------------------
(* Inputs typed by the user *)

RawIds ==
    { <<" ">>, <<" ", "a">>, <<"a", "|", "0">> }

RawNonces ==
    { <<>>, <<"x", " ">>, <<"1", "0", "0", "|", "x">> }

TypedNumbers == { -1, 0, 100, 101 }

Pages == { "Commit", "Reveal", "Ledger", "About" }

Tables == { "commits", "reveals" }

\* requests.post / requests.get: the backend answers after handling the
\* request ("answered"), answers with an HTTP error status having stored
\* nothing ("http_error"), or the call raises, on a timeout or a network
\* failure ("exception").
NetOutcomes == { "answered", "http_error", "exception" }

---------------------------------------------------------------------------
(* Pure helpers *)

\* The str value of the characters typed into a text input.
RECURSIVE Text(_)
Text(chars) == IF chars = <<>> THEN "" ELSE Head(chars) \o Text(Tail(chars))

RECURSIVE lstrip(_)
lstrip(chars) ==
    IF chars # <<>> /\ Head(chars) = " " THEN lstrip(Tail(chars)) ELSE chars

RECURSIVE rstrip(_)
rstrip(chars) ==
    IF chars # <<>> /\ chars[Len(chars)] = " "
    THEN rstrip(SubSeq(chars, 1, Len(chars) - 1))
    ELSE chars

\* st.text_input(...).strip(): leading and trailing whitespace removed
strip(chars) == Text(rstrip(lstrip(chars)))

Digits == <<"0", "1", "2", "3", "4", "5", "6", "7", "8", "9">>

RECURSIVE DecimalDigits(_)
DecimalDigits(n) ==
    IF n < 10 THEN Digits[n + 1]
    ELSE DecimalDigits(n \div 10) \o Digits[(n % 10) + 1]

\* the "{number}" of an f-string for an int: canonical decimal text
FormatInt(n) ==
    IF n < 0 THEN "-" \o DecimalDigits(0 - n) ELSE DecimalDigits(n)

\* the preimage with the nonce left out
PreimageNoNonce(uni_id, number, nonce) ==
    uni_id \o "|" \o FormatInt(number) \o "|"

\* f"{uni_id}|{number}|{nonce}"
Preimage(uni_id, number, nonce) ==
    uni_id \o "|" \o FormatInt(number) \o "|" \o nonce

\* hashlib.sha256(s.encode("utf-8")).hexdigest(): the digest of the string,
\* taken as collision-free, so that equal digests mean equal strings
sha256(s) == <<"sha256", s>>

\* the commit page without its deadline check
CommitNeverClosed(t) == FALSE

\* now_utc() > COMMIT_DEADLINE_UTC
CommitClosed(t) == t > COMMIT_DEADLINE_UTC

\* now_utc() < REVEAL_OPEN_UTC
RevealNotOpen(t) == t < REVEAL_OPEN_UTC

\* st.number_input(min_value=0, max_value=100, value=50): the widget yields
\* only values within its bounds
NumberInput == { n \in TypedNumbers : min_value <= n /\ n <= max_value }

\* the field check with "and" for "or"
FieldsBothMissing(uni_id, nonce) == uni_id = "" /\ nonce = ""

\* not uni_id or not nonce
FieldsMissing(uni_id, nonce) == uni_id = "" \/ nonce = ""

\* a commit payload that also carries the value
CommitPayloadWithSecret(uni_id, commit_hash, number, nonce) ==
    [kind |-> "commit", uni_id |-> uni_id, commit |-> commit_hash,
     number |-> number]

\* payload = {"kind": "commit", "uni_id": uni_id, "commit": commit_hash}
CommitPayload(uni_id, commit_hash, number, nonce) ==
    [kind |-> "commit", uni_id |-> uni_id, commit |-> commit_hash]

\* payload = {"kind": "reveal", "uni_id": ..., "number": ..., "nonce": ...}
RevealPayload(uni_id, number, nonce) ==
    [kind |-> "reveal", uni_id |-> uni_id, number |-> number, nonce |-> nonce]

---------------------------------------------------------------------------
(* The ledger backend behind the API URL *)

Committed(ledger, uni_id) == \E i \in 1..Len(ledger) : ledger[i].uni_id = uni_id

\* putCommit: first commit wins, later ones are answered as duplicates
putCommit(ledger, uni_id, commit_hash) ==
    IF Committed(ledger, uni_id) THEN [ledger |-> ledger, resp |-> "duplicate"]
    ELSE [ledger |-> Append(ledger, [uni_id |-> uni_id, commit |-> commit_hash]),
          resp |-> "ok"]

\* putReveal: stored without verification
putReveal(ledger, uni_id, number, nonce) ==
    [ledger |-> ledger \cup {[uni_id |-> uni_id, number |-> number, nonce |-> nonce]},
     resp |-> "ok"]

---------------------------------------------------------------------------
(* State *)

NoRun ==
    [op |-> "none", uni_id |-> "", number |-> value, nonce |-> "",
     hashed |-> FALSE, nreq |-> 0, resp |-> "none"]

\* What a page renders when it is shown without a form submission.
Render(p, t) ==
    CASE p = "Commit" ->
           IF CommitClosed(t) THEN <<"header", "error_deadline">>
           ELSE <<"header", "commit_form">>
      [] p = "Reveal" ->
           IF RevealNotOpen(t) THEN <<"header", "warning_not_open">>
           ELSE <<"header", "reveal_form">>
      [] p = "Ledger" -> <<"header", "buttons">>
      [] OTHER -> <<"header", "about">>

Shows(tag) == \E i \in 1..Len(screen) : screen[i] = tag

Init ==
    /\ now \in Times
    /\ page = "Commit"
    /\ screen = Render("Commit", now)
    /\ last = [NoRun EXCEPT !.op = "render"]
    /\ calls = {}
    /\ commits = <<>>
    /\ reveals = {}

---------------------------------------------------------------------------
(* Actions *)

\* The clock advances; nothing is rerun.
Tick ==
    /\ \E t \in Times : t > now /\ now' = t
    /\ UNCHANGED <<page, screen, last, calls, commits, reveals>>

\* The user picks a page in the sidebar: main() reruns and renders it.
SelectPage ==
    \E p \in Pages :
        /\ page' = p
        /\ screen' = Render(p, now)
        /\ last' = [NoRun EXCEPT !.op = "render"]
        /\ UNCHANGED <<now, calls, commits, reveals>>

\* send_commit, and what page_commit renders after it
SendCommit(run, uni_id, number, nonce, outcome) ==
    \E preimage \in {Preimage(uni_id, number, nonce)} :
    \E commit_hash \in {sha256(preimage)} :
    \E payload \in {CommitPayload(uni_id, commit_hash, number, nonce)} :
    \E put \in {putCommit(commits, uni_id, commit_hash)} :
    LET sending == [run EXCEPT !.hashed = TRUE, !.nreq = 1] IN
    /\ calls' = calls \cup {[kind |-> "commit", uni_id |-> uni_id,
                              number |-> number, nonce |-> nonce,
                              payload |-> payload]}
    /\ Cardinality(calls') <= MaxSent
    /\ commits' = IF outcome = "answered" THEN put.ledger ELSE commits
    /\ IF outcome = "exception" THEN
           /\ screen' = <<"header", "commit_form", "error_server">>
           /\ last' = [sending EXCEPT !.resp = "exception"]
       ELSE
           /\ screen' = <<"header", "commit_form", "success",
                          "server_response", "save_info">>
           /\ last' = [sending EXCEPT !.resp = IF outcome = "answered"
                                               THEN put.resp ELSE "http_error"]
    /\ UNCHANGED reveals

\* page_commit with the form submitted.
SubmitCommit ==
    /\ page = "Commit"
    /\ Shows("commit_form")
    /\ LET run == [NoRun EXCEPT !.op = "commit"] IN
       IF CommitClosed(now) THEN
           /\ screen' = <<"header", "error_deadline">>
           /\ last' = run
           /\ UNCHANGED <<calls, commits, reveals>>
       ELSE
           \E raw_id \in RawIds, raw_nonce \in RawNonces :
           \E uni_id \in {strip(raw_id)}, nonce \in {strip(raw_nonce)} :
               LET filled == [run EXCEPT !.uni_id = uni_id, !.nonce = nonce] IN
               IF FieldsMissing(uni_id, nonce) THEN
                   /\ screen' = <<"header", "commit_form", "error_fields">>
                   /\ last' = filled
                   /\ UNCHANGED <<calls, commits, reveals>>
               ELSE
                   \E number \in NumberInput, outcome \in NetOutcomes :
                       SendCommit([filled EXCEPT !.number = number],
                                  uni_id, number, nonce, outcome)
    /\ UNCHANGED <<now, page>>

\* send_reveal, and what page_reveal renders after it
SendReveal(run, uni_id, number, nonce, outcome) ==
    \E payload \in {RevealPayload(uni_id, number, nonce)} :
    \E put \in {putReveal(reveals, uni_id, number, nonce)} :
    LET sending == [run EXCEPT !.nreq = 1] IN
    /\ calls' = calls \cup {[kind |-> "reveal", uni_id |-> uni_id,
                              number |-> number, nonce |-> nonce,
                              payload |-> payload]}
    /\ Cardinality(calls') <= MaxSent
    /\ reveals' = IF outcome = "answered" THEN put.ledger ELSE reveals
    /\ IF outcome = "exception" THEN
           /\ screen' = <<"header", "reveal_form", "error_server">>
           /\ last' = [sending EXCEPT !.resp = "exception"]
       ELSE
           /\ screen' = <<"header", "reveal_form", "server_response">>
           /\ last' = [sending EXCEPT !.resp = IF outcome = "answered"
                                               THEN put.resp ELSE "http_error"]
    /\ UNCHANGED commits

\* page_reveal with the form submitted.
SubmitReveal ==
    /\ page = "Reveal"
    /\ Shows("reveal_form")
    /\ LET run == [NoRun EXCEPT !.op = "reveal"] IN
       IF RevealNotOpen(now) THEN
           /\ screen' = <<"header", "warning_not_open">>
           /\ last' = run
           /\ UNCHANGED <<calls, commits, reveals>>
       ELSE
           \E raw_id \in RawIds, raw_nonce \in RawNonces :
           \E uni_id \in {strip(raw_id)}, nonce \in {strip(raw_nonce)} :
               LET filled == [run EXCEPT !.uni_id = uni_id, !.nonce = nonce] IN
               IF FieldsMissing(uni_id, nonce) THEN
                   /\ screen' = <<"header", "reveal_form", "error_fields">>
                   /\ last' = filled
                   /\ UNCHANGED <<calls, commits, reveals>>
               ELSE
                   \E number \in NumberInput, outcome \in NetOutcomes :
                       SendReveal([filled EXCEPT !.number = number],
                                  uni_id, number, nonce, outcome)
    /\ UNCHANGED <<now, page>>

\* page_ledger with one of its two buttons pressed: fetch_ledger is a GET
\* of the table; raise_for_status turns an HTTP error into an exception.
LoadLedger ==
    /\ page = "Ledger"
    /\ \E table \in Tables, outcome \in NetOutcomes :
        LET run == [NoRun EXCEPT !.op = "fetch", !.nreq = 1] IN
        IF outcome = "answered" THEN
            /\ screen' = <<"header", "buttons", "text_area">>
            /\ last' = [run EXCEPT !.resp = "ok"]
        ELSE
            /\ screen' = <<"header", "buttons", "error_fetch">>
            /\ last' = [run EXCEPT !.resp = "exception"]
    /\ UNCHANGED <<now, page, calls, commits, reveals>>

Next ==
    \/ Tick
    \/ SelectPage
    \/ SubmitCommit
    \/ SubmitReveal
    \/ LoadLedger

Spec == Init /\ [][Next]_vars

---------------------------------------------------------------------------
(* Properties *)

CommitCalls == { c \in calls : c.kind = "commit" }
RevealCalls == { c \in calls : c.kind = "reveal" }

\* the values a submission can carry once it has passed validation
ValidIds == { strip(r) : r \in RawIds } \ {""}
ValidNonces == { strip(r) : r \in RawNonces } \ {""}

\* the typed texts that are empty after trimming
IsBlank(chars) == \A i \in 1..Len(chars) : chars[i] = " "
BlankTexts == { Text(r) : r \in { q \in RawIds \cup RawNonces : IsBlank(q) } }

\* a step that is a form submission of the given kind, run at clock reading now
Submitted(kind) == last'.op = kind /\ now' = now

ShowsNext(tag) == \E i \in 1..Len(screen') : screen'[i] = tag

\* C1: a commit submitted after the commit deadline, and a reveal submitted
\* before the reveal opening, shows the phase error and posts nothing to the
\* backend: no call is made and the ledger is unchanged, on every submission.
C1_LateSubmissionRejected ==
    [][ /\ (Submitted("commit") /\ now > COMMIT_DEADLINE_UTC)
           => /\ calls' = calls /\ commits' = commits /\ reveals' = reveals
              /\ last'.nreq = 0
              /\ ShowsNext("error_deadline")
        /\ (Submitted("reveal") /\ now < REVEAL_OPEN_UTC)
           => /\ calls' = calls /\ commits' = commits /\ reveals' = reveals
              /\ last'.nreq = 0
              /\ ShowsNext("warning_not_open")
      ]_vars

\* C1 witness: a commit form that had been shown was submitted after the
\* deadline and the run ended on the deadline error.
C1_Witness ==
    /\ last.op = "commit"
    /\ now > COMMIT_DEADLINE_UTC
    /\ Shows("error_deadline")
    /\ last.nreq = 0

\* the phases of section 4.2 a time belongs to
PhasesOf(t) ==
    (IF t <= COMMIT_DEADLINE_UTC THEN {"CommitOpen"} ELSE {})
    \cup (IF t >= REVEAL_OPEN_UTC THEN {"RevealOpen"} ELSE {})
    \cup (IF t > COMMIT_DEADLINE_UTC /\ t < REVEAL_OPEN_UTC THEN {"Waiting"} ELSE {})

\* C2: every time is in exactly one phase: a commit is posted only at a time
\* whose one phase is CommitOpen and a reveal only at a time whose one phase
\* is RevealOpen, so at no time are both accepted.
C2_ExactlyOnePhase ==
    [][ /\ (Submitted("commit") /\ last'.nreq = 1) => PhasesOf(now) = {"CommitOpen"}
        /\ (Submitted("reveal") /\ last'.nreq = 1) => PhasesOf(now) = {"RevealOpen"}
      ]_vars

\* C3: under a configuration with RevealOpen < CommitDeadline or MIN > MAX
\* the program has stopped at startup, so that no commit and no reveal is
\* ever posted to the backend.
C3_InvalidConfigurationStops ==
    (REVEAL_OPEN_UTC < COMMIT_DEADLINE_UTC \/ min_value > max_value)
    => sent = {}

\* C4: the ledger holds at most one CommitRecord per id, and a commit for an
\* id that has already committed ends in a duplicate error, not in success.
C4_FirstCommitWins ==
    /\ \A i, j \in 1..Len(commits) :
           commits[i].uni_id = commits[j].uni_id => i = j
    /\ (last.op = "commit" /\ last.resp = "duplicate")
       => /\ Shows("error_duplicate")
          /\ ~Shows("success")

\* the verification result of section 4.4 for a reveal against the ledger
Verify(uni_id, number, nonce, ledger) ==
    IF ~Committed(ledger, uni_id) THEN "NoPriorCommit"
    ELSE IF \E i \in 1..Len(ledger) :
                /\ ledger[i].uni_id = uni_id
                /\ ledger[i].commit = sha256(Preimage(uni_id, number, nonce))
         THEN "Match"
         ELSE "Mismatch"

\* C5: a reveal posted in the reveal phase is recorded and the run returns
\* the result of checking it against the stored commitment of the same id:
\* NoPriorCommit, Match or Mismatch.
C5_RevealVerified ==
    (last.op = "reveal" /\ last.nreq = 1 /\ last.resp = "ok")
    => /\ [uni_id |-> last.uni_id, number |-> last.number, nonce |-> last.nonce]
              \in reveals
       /\ Shows(Verify(last.uni_id, last.number, last.nonce, commits))

\* C6: for every commitment sent, the commitment recomputed for the same id
\* from a value and a nonce equals it exactly when value and nonce are the
\* committed ones.
C6_Binding ==
    \A c \in CommitCalls :
        \A number \in NumberInput, nonce \in ValidNonces :
            (sha256(Preimage(c.uni_id, number, nonce)) = c.payload.commit)
            <=> (number = c.number /\ nonce = c.nonce)

\* C6 witness: a commitment was sent and a reveal of the same id with another
\* value or nonce was submitted; its recomputed commitment differs.
C6_Witness ==
    \E c \in CommitCalls, r \in RevealCalls :
        /\ r.uni_id = c.uni_id
        /\ (r.number # c.number \/ r.nonce # c.nonce)
        /\ sha256(Preimage(r.uni_id, r.number, r.nonce)) # c.payload.commit

\* C7: two commits of distinct triples (id, value, nonce) that passed
\* validation have distinct preimages.
C7_PreimageUnambiguous ==
    \A c \in CommitCalls, d \in CommitCalls :
        (<<c.uni_id, c.number, c.nonce>> # <<d.uni_id, d.number, d.nonce>>)
        => (Preimage(c.uni_id, c.number, c.nonce)
              # Preimage(d.uni_id, d.number, d.nonce))

\* C8: send_commit and send_reveal are only ever called with an id and a
\* nonce that are not empty after trimming and a value within [0, 100], and a
\* submission with an empty id or nonce ends in an error with no hash
\* computed and no request posted.
C8_InvalidInputStopped ==
    /\ \A c \in calls :
           /\ c.uni_id \notin BlankTexts
           /\ c.nonce \notin BlankTexts
           /\ c.number \in 0..100
    /\ (last.op \in {"commit", "reveal"}
          /\ (last.uni_id \in BlankTexts \/ last.nonce \in BlankTexts))
       => /\ Shows("error_fields") \/ Shows("error_deadline")
             \/ Shows("warning_not_open")
          /\ last.nreq = 0
          /\ ~last.hashed

\* C8 witness: a commit whose id was blank was submitted in the commit phase
\* and rejected for its fields.
C8_Witness ==
    /\ last.op = "commit"
    /\ last.uni_id = ""
    /\ last.nonce # ""
    /\ Shows("error_fields")

\* C9: a commit request carries the kind, the id and the hash and nothing
\* else; value and nonce are fields of reveal requests only; two commit
\* requests of one id differ in the hash field only.
C9_CommitHidesValue ==
    /\ \A c \in CommitCalls :
           /\ DOMAIN c.payload = {"kind", "uni_id", "commit"}
           /\ c.payload.uni_id = c.uni_id
    /\ \A p \in sent :
           ("number" \in DOMAIN p \/ "nonce" \in DOMAIN p)
           => \E r \in RevealCalls : r.payload = p /\ p.kind = "reveal"
    /\ \A c \in CommitCalls, d \in CommitCalls :
           c.uni_id = d.uni_id
           => /\ DOMAIN c.payload = DOMAIN d.payload
              /\ \A f \in DOMAIN c.payload \ {"commit"} : c.payload[f] = d.payload[f]

\* C9 witness: two commits of one id with different value and nonce were
\* sent, and no reveal yet.
C9_Witness ==
    /\ RevealCalls = {}
    /\ \E c \in CommitCalls, d \in CommitCalls :
           /\ c.uni_id = d.uni_id
           /\ c.number # d.number
           /\ c.nonce # d.nonce
           /\ c.payload # d.payload

\* C10: a commit whose request raised or was answered with a non-success
\* result shows an error and neither the success message nor the save block,
\* and a submission posts at most one request.
C10_BackendFailureSurfaced ==
    /\ last.nreq <= 1
    /\ (last.op = "commit" /\ last.nreq = 1 /\ last.resp # "ok")
       => /\ Shows("error_server")
          /\ ~Shows("success")
          /\ ~Shows("save_info")

====
